---- MODULE Spec2Model ----
(***************************************************************************)
(* Gateway protocol engine (gateway.rs) driven by the connection           *)
(* orchestrator (client.rs): the receive loop, the opcode handler, the     *)
(* background heartbeat tasks and the lock on the transport connection.    *)
(***************************************************************************)
EXTENDS Integers, Sequences, FiniteSets, TLC

----------------------------------------------------------------------------
(* Bounds of the model *)

MaxFrames == 2      \* payload frames the server delivers on one connection
MaxTasks == 2       \* Hello frames delivered, hence heartbeat tasks spawned
MaxSeq == 1         \* largest sequence number the server puts in s
MaxApiCalls == 1    \* calls of the public send_heartbeat()
MaxRequests == 2    \* calls of HTTPClient::request() by the application
MaxCacheCalls == 4  \* calls of the operations of State
MaxKwargs == 2      \* named fields given to Intents::new

----------------------------------------------------------------------------
(* Values *)

\* Option::None of the Option<u64> session fields and of as_u64()
None == -1
\* JSON null (or an absent key) in a numeric field of a payload
JsonNull == -1
\* a JSON value that is present but is not a u64 (negative, float, string)
JsonNotU64 == -2
\* None of Option<String> / as_str() on a null or absent key
NoStr == "<none>"
\* heartbeat interval used when Hello carries none
DefaultInterval == 41250

\* Value::as_u64
as_u64(v) == IF v >= 0 THEN v ELSE None

\* Option::unwrap_or
unwrap_or(o, dflt) == IF o = None THEN dflt ELSE o

\* the opcode numbers of enum GatewayOpcode
Dispatch == 0
Heartbeat == 1
Identify == 2
PresenceUpdate == 3
VoiceStateUpdate == 4
Resume == 6
Reconnect == 7
RequestGuildMembers == 8
InvalidSession == 9
Hello == 10
HeartbeatAck == 11
GatewayOpcode ==
    {Dispatch, Heartbeat, Identify, PresenceUpdate, VoiceStateUpdate, Resume,
     Reconnect, RequestGuildMembers, InvalidSession, Hello, HeartbeatAck}

\* GatewayOpcode::from_u64
from_u64(value) == IF value \in GatewayOpcode THEN value ELSE None

\* what the server may put in the fields of a payload
\* (5 is an opcode number outside the table)
OpVals == {JsonNull, JsonNotU64, Dispatch, 5, Reconnect, InvalidSession, Hello, HeartbeatAck}
SVals == {JsonNull, JsonNotU64} \cup (0..MaxSeq)
TVals == {NoStr, "READY", "MESSAGE_CREATE"}
SidVals == {NoStr, "abc123", "xyz789"}
HbiVals == {JsonNull, 1000}

\* the JSON payloads of inbound frames: op, s, t, d.session_id, d.heartbeat_interval
Payloads ==
    { p \in [op : OpVals, s : SVals, t : TVals, sid : SidVals, hbi : HbiVals] :
        /\ (p.op # Hello => p.hbi = JsonNull)
        /\ (p.t # "READY" => p.sid = NoStr)
        /\ (p.op \in {Reconnect, InvalidSession, Hello} => p.t = NoStr)
        /\ (p.op \in {5, HeartbeatAck} =>
                (p.t = NoStr \/ (p.t = "READY" /\ p.sid = "xyz789")))
        /\ (p.op = JsonNull => p.sid # "xyz789")
        /\ (p.op = JsonNotU64 => (p.t = "READY" /\ p.sid = "abc123")) }

NoPayload == [op |-> JsonNull, s |-> JsonNull, t |-> NoStr, sid |-> NoStr, hbi |-> JsonNull]

\* a DiscordError: its variant, and the number and text it carries
Err(kind, code, text) == [kind |-> kind, code |-> code, text |-> text]
NoErr == Err("none", 0, "")

\* the CloseFrame option of Message::Close: absent, or a code and a reason
CloseFrames ==
    {[got |-> TRUE, body |-> FALSE, code |-> 0, reason |-> ""]} \cup
    {[got |-> TRUE, body |-> TRUE, code |-> 4004, reason |-> "Authentication failed."]}
NoClose == [got |-> FALSE, body |-> FALSE, code |-> 0, reason |-> ""]

\* the cache: Snowflake ids, the JSON records stored, and Option::None of a get
Ids == {101, 202}
Records == {"recA", "recB"}
Absent == "absent"
Kinds == {"guild", "user", "channel"}
\* the threads that use the cache at the same time
Callers == {"t1", "t2"}

\* a caller that is in none of the operations of State
Idle == [op |-> "none", kind |-> "guild", id |-> 0, data |-> Absent, pc |-> "idle",
         alone |-> TRUE, had |-> 0]

\* the token run() is given, and the tokens set_token() may be given
Tokens == {"tokA"}
SetTokens == {"tokA", "tokB"}

\* the verbs request() dispatches over, and the methods it may be called with
Verbs == {"GET", "POST", "PUT", "PATCH", "DELETE"}
Methods == Verbs \cup {"HEAD", "get"}
Paths == {"/gateway", "/gateway/bot"}

\* HTTP statuses and bodies the API may answer with; retry_after is counted
\* in tenths of a second (25 is 2.5 s)
Statuses == {200, 204, 299, 304, 400, 403, 404, 429, 500, 599}
UrlVals == {NoStr, "wss://a.example", "wss://b.example"}
RetryVals == {0, 25}
NotJson == [json |-> FALSE, url |-> NoStr, hasRetry |-> FALSE, retry |-> 0]
Bodies ==
    {NotJson} \cup
    {[json |-> TRUE, url |-> u, hasRetry |-> FALSE, retry |-> 0] : u \in UrlVals} \cup
    {[json |-> TRUE, url |-> u, hasRetry |-> TRUE, retry |-> r] :
        u \in UrlVals, r \in RetryVals}

\* what req.send().await yields: a transport failure, or a response
NoResp == [state |-> "none", status |-> 0, body |-> NotJson]
SendFailed == [state |-> "failed", status |-> 0, body |-> NotJson]
Responses ==
    {SendFailed} \cup
    {[state |-> "arrived", status |-> st, body |-> b] : st \in Statuses, b \in Bodies}

\* Result<Value, DiscordError> of request()
Ok(body) == [ok |-> TRUE, body |-> body, err |-> NoErr]
Fail(err) == [ok |-> FALSE, body |-> NotJson, err |-> err]
NoResult == [ok |-> FALSE, body |-> NotJson, err |-> NoErr]

\* json["retry_after"].as_f64().unwrap_or(1.0), in tenths of a second
DefaultRetryAfter == 10
IntentValues == {513}

\* tasks that use the connection
MainP == <<"main", 0>>
ApiP == <<"api", 0>>
HbP(i) == <<"hb", i>>
NoHolder == <<"none", 0>>
TaskIds == 1..MaxTasks

----------------------------------------------------------------------------
VARIABLES
    pcMain,             \* position of ClientInternal::connect
    token, intents,     \* Gateway.token, Gateway.intents
    ws,                 \* Gateway.ws: "None" or "Some"
    wsHolder,           \* task holding the write lock of Gateway.ws
    wsWaiters,          \* tasks queued for it, in arrival order
    sequence,           \* Gateway.sequence
    session_id,         \* Gateway.session_id
    heartbeat_interval, \* Gateway.heartbeat_interval
    last_heartbeat_ack, \* Gateway.last_heartbeat_ack
    cur,                \* payload returned by the last receive()
    eof,                \* the transport stream has ended
    hb,                 \* the spawned heartbeat tasks: position and seq read
    nTasks,             \* heartbeat tasks spawned so far
    pcApi, apiSeq, apiCalls, \* a caller of send_heartbeat()
    lastFrame,          \* the frame last handed to ws.send
    nIdentify, nHeartbeat, \* Identify / Heartbeat frames handed to ws.send
    frames, hellos, acks, \* payload frames / Hellos / HeartbeatAcks delivered
    lastErr,            \* the error connect() returned
    recvErr,            \* the error receive() returned
    closeMsg,           \* the close frame receive() was given
    http_token,         \* HTTPClient.token
    rate_limits,        \* HTTPClient.rate_limits: route -> earliest retry time
    nSent,              \* HTTP requests sent
    httpResp,           \* the response request() is looking at
    gatewayUrl,         \* gateway_url of connect(), until it is used
    pcReq,              \* position of a call of request() by the application
    reqMethod, reqPath, reqBody, \* its arguments
    reqAuth,            \* the token it read for the Authorization header
    result,             \* what the last such call returned
    nCalls,             \* calls made so far
    guilds,             \* State.guilds
    users,              \* State.users
    channels,           \* State.channels
    calls,              \* per caller: the operation of State it is in
    nCacheCalls,        \* operations of State called so far
    value,              \* Intents.value of the object being made
    made,               \* the constructor that made it, or "type_error"
    nKwargs             \* named fields of new() applied so far

gwVars == <<pcMain, token, intents, ws, wsHolder, wsWaiters, sequence, session_id,
            heartbeat_interval, last_heartbeat_ack, cur, eof, hb, nTasks,
            pcApi, apiSeq, apiCalls, lastFrame, nIdentify, nHeartbeat,
            frames, hellos, acks, lastErr, recvErr, closeMsg>>

callVars == <<pcReq, reqMethod, reqPath, reqBody, result, nCalls>>
httpVars == <<http_token, rate_limits, nSent, httpResp, gatewayUrl, reqAuth, callVars>>

cacheVars == <<guilds, users, channels, calls, nCacheCalls>>
libVars == <<cacheVars, value, made, nKwargs>>

vars == <<gwVars, httpVars, libVars>>

sessionVars == <<sequence, session_id, heartbeat_interval, last_heartbeat_ack>>
lockVars == <<wsHolder, wsWaiters>>
apiVars == <<pcApi, apiSeq, apiCalls>>
srvVars == <<frames, hellos, acks, eof>>
cfgVars == <<token, intents>>
wireVars == <<lastFrame, nIdentify, nHeartbeat>>
rxVars == <<recvErr, closeMsg>>

----------------------------------------------------------------------------
(* The write lock of Gateway.ws (tokio::sync::RwLock, FIFO-fair) *)

\* a lock that does not exclude: write() is granted whoever holds it
LockFreeShared(holder) == TRUE

\* write() is granted at once only when nobody holds the lock
LockFree(holder) == holder = NoHolder

\* ws.write().await is reached by task p: granted, or queued
Acquire(p) ==
    IF LockFree(wsHolder)
    THEN wsHolder' = p /\ UNCHANGED wsWaiters
    ELSE wsWaiters' = Append(wsWaiters, p) /\ UNCHANGED wsHolder

\* a guard that is never dropped
ReleaseKept == UNCHANGED lockVars

\* the guard is dropped: the lock passes to the first waiter
Release ==
    IF wsWaiters = <<>>
    THEN wsHolder' = NoHolder /\ UNCHANGED wsWaiters
    ELSE wsHolder' = Head(wsWaiters) /\ wsWaiters' = Tail(wsWaiters)

Granted(p) == wsHolder' = p

----------------------------------------------------------------------------
(* Frames written *)

IdentifyFrame(tok, mask, ok) ==
    [op |-> Identify, d |-> None, token |-> tok, intents |-> mask, by |-> MainP, ok |-> ok]

HeartbeatFrame(seq, p, ok) ==
    [op |-> Heartbeat, d |-> seq, token |-> "", intents |-> 0, by |-> p, ok |-> ok]

\* nothing written yet
NoFrame == [op |-> None, d |-> None, token |-> "", intents |-> 0, by |-> NoHolder, ok |-> FALSE]

----------------------------------------------------------------------------
Init ==
    /\ pcMain = "set_token"
    /\ token \in Tokens
    /\ intents \in IntentValues
    /\ ws = "None"
    /\ wsHolder = NoHolder
    /\ wsWaiters = <<>>
    /\ sequence = None
    /\ session_id = NoStr
    /\ heartbeat_interval = None
    /\ last_heartbeat_ack = TRUE
    /\ cur = NoPayload
    /\ eof = FALSE
    /\ hb = [i \in TaskIds |-> [pc |-> "unspawned", seq |-> None, acked |-> FALSE]]
    /\ nTasks = 0
    /\ pcApi = "idle"
    /\ apiSeq = None
    /\ apiCalls = 0
    /\ lastFrame = NoFrame
    /\ nIdentify = 0
    /\ nHeartbeat = 0
    /\ frames = 0
    /\ hellos = 0
    /\ acks = 0
    /\ lastErr = NoErr
    /\ recvErr = NoErr
    /\ closeMsg = NoClose
    /\ http_token = NoStr
    /\ rate_limits = [route \in {} |-> 0]
    /\ nSent = 0
    /\ httpResp = NoResp
    /\ gatewayUrl = NoStr
    /\ pcReq = "idle"
    /\ reqMethod = ""
    /\ reqPath = ""
    /\ reqBody = FALSE
    /\ reqAuth = NoStr
    /\ result = NoResult
    /\ nCalls = 0
    /\ guilds = <<>>
    /\ users = <<>>
    /\ channels = <<>>
    /\ calls = [w \in Callers |-> Idle]
    /\ nCacheCalls = 0
    /\ value = 0
    /\ made = "none"
    /\ nKwargs = 0

----------------------------------------------------------------------------
(* Gateway::handle_payload, the pure parts *)

\* the update made in the Dispatch arm only
UpdateSequenceDispatchOnly(seq, payload) ==
    IF as_u64(payload.s) # None /\ from_u64(unwrap_or(as_u64(payload.op), 0)) = Dispatch
    THEN as_u64(payload.s) ELSE seq

\* the sequence after the "if let Some(seq) = payload["s"].as_u64()" statement
UpdateSequence(seq, payload) ==
    IF as_u64(payload.s) # None THEN as_u64(payload.s) ELSE seq

\* a decoding in which a frame without a u64 op has no opcode
OpcodeOfStrict(payload) ==
    IF as_u64(payload.op) = None THEN None ELSE from_u64(payload.op)

\* payload["op"].as_u64().unwrap_or(0), GatewayOpcode::from_u64(op)
OpcodeOf(payload) == from_u64(unwrap_or(as_u64(payload.op), 0))

\* payload["d"]["heartbeat_interval"].as_u64().unwrap_or(41250)
HelloInterval(payload) == unwrap_or(as_u64(payload.hbi), DefaultInterval)

\* a session id that is captured once and then kept
ReadySessionIdOnce(sid, payload) ==
    IF payload.t # NoStr /\ payload.t = "READY" /\ payload.sid # NoStr /\ sid = NoStr
    THEN payload.sid ELSE sid

\* the session id after the Dispatch arm
ReadySessionId(sid, payload) ==
    IF payload.t # NoStr /\ payload.t = "READY" /\ payload.sid # NoStr
    THEN payload.sid ELSE sid

\* a task that never looks at the flag
AckMissingIgnored(flag) == FALSE

\* the test of the heartbeat task at the end of the grace window
AckMissing(flag) == ~flag

\* connect(): payload["op"].as_u64() == Some(10)
SawHello(payload) == as_u64(payload.op) = Hello

----------------------------------------------------------------------------
(* HTTPClient::request and HTTPClient::get_gateway, the pure parts *)

\* a match on method that ignores the case of the verb
ValidMethodAnyCase(m) == m \in Verbs \cup {"get"}

\* the match on method: one of the five verbs, or the "_" arm
ValidMethod(m) == m \in Verbs

\* a success test that knows 200 only
is_success200(status) == status = 200

\* status.is_success()
is_success(status) == status >= 200 /\ status < 300

\* response.json().await?
ParseBody(body) == IF body.json THEN Ok(body) ELSE Fail(Err("Http", 0, "decode"))

\* json["retry_after"].as_f64().unwrap_or(1.0)
RetryAfter(body) == IF body.hasRetry THEN body.retry ELSE DefaultRetryAfter

\* the match on status.as_u16() of a response that is not a success
StatusError(status, body) ==
    CASE status = 403 -> Fail(Err("Forbidden", 0, ""))
      [] status = 404 -> Fail(Err("NotFound", 0, ""))
      [] status = 429 ->
            IF ParseBody(body).ok
            THEN Fail(Err("RateLimited", RetryAfter(body), ""))
            ELSE ParseBody(body)
      [] status >= 500 /\ status <= 599 -> Fail(Err("ServerError", 0, ""))
      [] OTHER -> Fail(Err("InvalidData", status, "HTTP error"))

\* request() from req.send().await? on
RequestOutcome(resp) ==
    IF resp.state # "arrived" THEN Fail(Err("Http", 0, "send"))
    ELSE IF is_success(resp.status) THEN ParseBody(resp.body)
    ELSE StatusError(resp.status, resp.body)

\* a get_gateway() that passes a missing url on as an empty one
GetGatewayResultLenient(res) ==
    IF ~res.ok THEN [ok |-> FALSE, url |-> NoStr, err |-> res.err]
    ELSE [ok |-> TRUE, url |-> res.body.url, err |-> NoErr]

\* get_gateway(): response["url"].as_str() of the result of request()
GetGatewayResult(res) ==
    IF ~res.ok THEN [ok |-> FALSE, url |-> NoStr, err |-> res.err]
    ELSE IF res.body.url # NoStr THEN [ok |-> TRUE, url |-> res.body.url, err |-> NoErr]
    ELSE [ok |-> FALSE, url |-> NoStr,
          err |-> Err("Gateway", 0, "No gateway URL in response")]

----------------------------------------------------------------------------
(* HTTPClient used by the application: set_token and request *)

\* HTTPClient::set_token
SetToken ==
    /\ \E t \in SetTokens : http_token' = t
    /\ http_token' # http_token
    /\ UNCHANGED <<gwVars, libVars, rate_limits, nSent, httpResp, gatewayUrl, reqAuth, callVars>>

\* request(method, path, json) up to req.send(), or to the return of the "_" arm
RequestCall ==
    /\ pcReq = "idle"
    /\ nCalls < MaxRequests
    /\ nCalls' = nCalls + 1
    /\ \E m \in Methods, p \in Paths, b \in BOOLEAN :
          /\ reqMethod' = m /\ reqPath' = p /\ reqBody' = b
          /\ IF ValidMethod(m)
             THEN /\ pcReq' = "sent"
                  /\ reqAuth' = http_token
                  /\ nSent' = nSent + 1
                  /\ result' = NoResult
             ELSE /\ pcReq' = "idle"
                  /\ result' = Fail(Err("InvalidData", 0, m))
                  /\ UNCHANGED <<nSent, reqAuth>>
    /\ UNCHANGED <<gwVars, libVars, http_token, rate_limits, httpResp, gatewayUrl>>

\* req.send().await answers
RequestResponse ==
    /\ pcReq = "sent"
    /\ httpResp' \in Responses
    /\ pcReq' = "got"
    /\ UNCHANGED <<gwVars, libVars, http_token, rate_limits, nSent, gatewayUrl, reqAuth,
                   reqMethod, reqPath, reqBody, result, nCalls>>

\* the status is classified and request() returns
RequestReturn ==
    /\ pcReq = "got"
    /\ result' = RequestOutcome(httpResp)
    /\ httpResp' = NoResp
    /\ pcReq' = "idle"
    /\ UNCHANGED <<gwVars, libVars, http_token, rate_limits, nSent, gatewayUrl, reqAuth,
                   reqMethod, reqPath, reqBody, nCalls>>

HttpNext == SetToken \/ RequestCall \/ RequestResponse \/ RequestReturn

HttpSpec == Init /\ [][HttpNext]_vars

----------------------------------------------------------------------------
(* State (state.rs): three DashMaps used by any number of threads.  Every    *)
(* operation of a DashMap on one key is atomic; clear() of State is three    *)
(* calls, one map after the other.                                           *)

\* DashMap::insert that forgets the other keys of the map
InsertAlone(map, id, data) == [x \in {id} |-> data]

\* DashMap::insert
Insert(map, id, data) ==
    [x \in DOMAIN map \cup {id} |-> IF x = id THEN data ELSE map[x]]

\* DashMap::get(&id).map(|v| v.clone())
get_guild(id) == IF id \in DOMAIN guilds THEN guilds[id] ELSE Absent

\* a get_user that looks into the guilds
get_user_of_guilds(id) == get_guild(id)

get_user(id) == IF id \in DOMAIN users THEN users[id] ELSE Absent

get_channel(id) == IF id \in DOMAIN channels THEN channels[id] ELSE Absent

\* the get of a kind
get(kind, id) ==
    CASE kind = "guild" -> get_guild(id)
      [] kind = "user" -> get_user(id)
      [] kind = "channel" -> get_channel(id)

PutInFlight(w) == calls[w].op = "put" /\ calls[w].pc = "called"

\* a thread calls add_guild, add_user or add_channel; a clear() that is
\* running is no longer alone
CallPut(w) ==
    /\ calls[w].pc = "idle"
    /\ nCacheCalls < MaxCacheCalls
    /\ nCacheCalls' = nCacheCalls + 1
    /\ \E k \in Kinds, i \in Ids, r \in Records :
          calls' = [v \in Callers |->
                      IF v = w
                      THEN [Idle EXCEPT !.op = "put", !.kind = k, !.id = i, !.data = r,
                                        !.pc = "called"]
                      ELSE IF calls[v].pc \in {"clear_guilds", "clear_users", "clear_channels"}
                      THEN [calls[v] EXCEPT !.alone = FALSE]
                      ELSE calls[v]]
    /\ UNCHANGED <<gwVars, httpVars, value, made, nKwargs, guilds, users, channels>>

\* a thread calls remove_guild
CallRemove(w) ==
    /\ calls[w].pc = "idle"
    /\ nCacheCalls < MaxCacheCalls
    /\ nCacheCalls' = nCacheCalls + 1
    /\ \E i \in Ids :
          calls' = [calls EXCEPT ![w] =
                      [Idle EXCEPT !.op = "remove", !.id = i, !.pc = "called"]]
    /\ UNCHANGED <<gwVars, httpVars, value, made, nKwargs, guilds, users, channels>>

\* a thread calls clear()
CallClear(w) ==
    /\ calls[w].pc = "idle"
    /\ nCacheCalls < MaxCacheCalls
    /\ nCacheCalls' = nCacheCalls + 1
    /\ calls' = [calls EXCEPT ![w] =
                   [Idle EXCEPT !.op = "clear", !.pc = "clear_guilds",
                                !.alone = \A v \in Callers : ~PutInFlight(v),
                                !.had = Cardinality({k \in Kinds :
                                    \E i \in Ids : get(k, i) # Absent})]]
    /\ UNCHANGED <<gwVars, httpVars, value, made, nKwargs, guilds, users, channels>>

add_guild(w) ==
    /\ PutInFlight(w) /\ calls[w].kind = "guild"
    /\ guilds' = Insert(guilds, calls[w].id, calls[w].data)
    /\ calls' = [calls EXCEPT ![w] = Idle]
    /\ UNCHANGED <<gwVars, httpVars, value, made, nKwargs, nCacheCalls, users, channels>>

add_user(w) ==
    /\ PutInFlight(w) /\ calls[w].kind = "user"
    /\ users' = Insert(users, calls[w].id, calls[w].data)
    /\ calls' = [calls EXCEPT ![w] = Idle]
    /\ UNCHANGED <<gwVars, httpVars, value, made, nKwargs, nCacheCalls, guilds, channels>>

add_channel(w) ==
    /\ PutInFlight(w) /\ calls[w].kind = "channel"
    /\ channels' = Insert(channels, calls[w].id, calls[w].data)
    /\ calls' = [calls EXCEPT ![w] = Idle]
    /\ UNCHANGED <<gwVars, httpVars, value, made, nKwargs, nCacheCalls, guilds, users>>

remove_guild(w) ==
    /\ calls[w].op = "remove" /\ calls[w].pc = "called"
    /\ guilds' = [x \in DOMAIN guilds \ {calls[w].id} |-> guilds[x]]
    /\ calls' = [calls EXCEPT ![w] = Idle]
    /\ UNCHANGED <<gwVars, httpVars, value, made, nKwargs, nCacheCalls, users, channels>>

\* clear(): self.guilds.clear()
ClearGuilds(w) ==
    /\ calls[w].pc = "clear_guilds"
    /\ guilds' = <<>>
    /\ calls' = [calls EXCEPT ![w].pc = "clear_users"]
    /\ UNCHANGED <<gwVars, httpVars, value, made, nKwargs, nCacheCalls, users, channels>>

\* clear(): self.users.clear()
ClearUsers(w) ==
    /\ calls[w].pc = "clear_users"
    /\ users' = <<>>
    /\ calls' = [calls EXCEPT ![w].pc = "clear_channels"]
    /\ UNCHANGED <<gwVars, httpVars, value, made, nKwargs, nCacheCalls, guilds, channels>>

\* a clear() that leaves the channels as they are
ClearChannelsSkipped(w) ==
    /\ calls[w].pc = "clear_channels"
    /\ calls' = [calls EXCEPT ![w].pc = "cleared"]
    /\ UNCHANGED <<gwVars, httpVars, value, made, nKwargs, nCacheCalls, guilds, users, channels>>

\* clear(): self.channels.clear()
ClearChannels(w) ==
    /\ calls[w].pc = "clear_channels"
    /\ channels' = <<>>
    /\ calls' = [calls EXCEPT ![w].pc = "cleared"]
    /\ UNCHANGED <<gwVars, httpVars, value, made, nKwargs, nCacheCalls, guilds, users>>

\* clear() returns
ClearReturn(w) ==
    /\ calls[w].pc = "cleared"
    /\ calls' = [calls EXCEPT ![w] = Idle]
    /\ UNCHANGED <<gwVars, httpVars, value, made, nKwargs, nCacheCalls, guilds, users, channels>>

CacheNext ==
    \E w \in Callers :
        \/ CallPut(w) \/ CallRemove(w) \/ CallClear(w)
        \/ add_guild(w) \/ add_user(w) \/ add_channel(w) \/ remove_guild(w)
        \/ ClearGuilds(w) \/ ClearUsers(w) \/ ClearChannels(w) \/ ClearReturn(w)

CacheSpec == Init /\ [][CacheNext]_vars

----------------------------------------------------------------------------
(* Intents (enums.rs): a bit set in an i64, made by new(value, **kwargs),    *)
(* all(), none() and default()                                               *)

\* the highest bit a flag uses
MaxBit == 25

\* bit n of v, also of a negative v (two's complement)
BitSet(v, n) == (v \div (2 ^ (n))) % 2 = 1

\* v |= 1 << n
OrBit(v, n) == IF BitSet(v, n) THEN v ELSE v + (2 ^ (n))

\* v &= !(1 << n)
ClearBit(v, n) == IF BitSet(v, n) THEN v - (2 ^ (n)) ELSE v

\* (1 << b1) | (1 << b2) | ... over a set of bits
RECURSIVE FromBits(_)
FromBits(bits) ==
    IF bits = {} THEN 0
    ELSE LET n == CHOOSE n \in bits : TRUE IN OrBit(FromBits(bits \ {n}), n)

\* the bits of a value within the flags' range
BitsOf(v) == {n \in 0..MaxBit : BitSet(v, n)}

\* __and__: self.value & other.value, for a self within the flags' range
\* (other may be negative, as the -v - 1 of __invert__ is)
And(a, b) == FromBits({n \in BitsOf(a) : BitSet(b, n)})

\* the match of new() on the name of a field: the bit, or None for the error
FlagBit(name) ==
    CASE name = "guilds" -> 0
      [] name = "members" -> 1
      [] name \in {"moderation", "bans"} -> 2
      [] name \in {"emojis", "emojis_and_stickers", "expressions"} -> 3
      [] name = "integrations" -> 4
      [] name = "webhooks" -> 5
      [] name = "invites" -> 6
      [] name = "voice_states" -> 7
      [] name = "presences" -> 8
      [] name \in {"messages", "guild_messages"} -> 9
      [] name = "dm_messages" -> 12
      [] name \in {"reactions", "guild_reactions"} -> 10
      [] name = "dm_reactions" -> 13
      [] name \in {"typing", "guild_typing"} -> 11
      [] name = "dm_typing" -> 14
      [] name = "message_content" -> 15
      [] name = "guild_scheduled_events" -> 16
      [] name \in {"auto_moderation", "auto_moderation_configuration"} -> 20
      [] name = "auto_moderation_execution" -> 21
      [] name \in {"polls", "guild_polls"} -> 24
      [] name = "dm_polls" -> 25
      [] OTHER -> None

\* the names new() may be given
FieldNames ==
    {"guilds", "members", "moderation", "bans", "emojis", "emojis_and_stickers",
     "expressions", "integrations", "webhooks", "invites", "voice_states",
     "presences", "messages", "guild_messages", "dm_messages", "reactions",
     "guild_reactions", "dm_reactions", "typing", "guild_typing", "dm_typing",
     "message_content", "guild_scheduled_events", "auto_moderation",
     "auto_moderation_configuration", "auto_moderation_execution", "polls",
     "guild_polls", "dm_polls", "voice", "Guilds"}

\* Intents::all()
all ==
    FromBits({0, 1, 2, 3, 4, 5, 6, 7, 8, 9, 10, 11, 12, 13, 14, 15, 16, 20, 21, 24, 25})

\* a default() that keeps the members bit
defaultWithMembers == ClearBit(ClearBit(all, 8), 15)

\* Intents::default()
default == ClearBit(ClearBit(ClearBit(all, 8), 1), 15)

\* Intents::all(), Intents::none() or Intents::default() is called
MakeAll ==
    /\ value' = all /\ made' = "all" /\ nKwargs' = 0
    /\ UNCHANGED <<gwVars, httpVars, cacheVars>>

MakeNone ==
    /\ value' = 0 /\ made' = "none" /\ nKwargs' = 0
    /\ made # "none"
    /\ UNCHANGED <<gwVars, httpVars, cacheVars>>

MakeDefault ==
    /\ value' = default /\ made' = "default" /\ nKwargs' = 0
    /\ UNCHANGED <<gwVars, httpVars, cacheVars>>

\* Intents::new(value, ...): let mut intents = Intents { value }
NewIntents ==
    /\ \E v \in {0, all, default} : value' = v
    /\ made' = "new" /\ nKwargs' = 0
    /\ UNCHANGED <<gwVars, httpVars, cacheVars>>

\* Intents::new: one turn of the loop over kwargs
NewKwarg ==
    /\ made = "new"
    /\ nKwargs < MaxKwargs
    /\ nKwargs' = nKwargs + 1
    /\ \E name \in FieldNames, bool_val \in BOOLEAN :
          IF FlagBit(name) = None
          THEN made' = "type_error" /\ UNCHANGED value
          ELSE /\ value' = (IF bool_val THEN OrBit(value, FlagBit(name))
                                        ELSE ClearBit(value, FlagBit(name)))
               /\ UNCHANGED made
    /\ UNCHANGED <<gwVars, httpVars, cacheVars>>

IntentsNext == MakeAll \/ MakeNone \/ MakeDefault \/ NewIntents \/ NewKwarg

IntentsSpec == Init /\ [][IntentsNext]_vars

----------------------------------------------------------------------------
(* ClientInternal::connect up to the loop *)

\* Client::run: http.set_token(token_clone.clone()).await
RunSetToken ==
    /\ pcMain = "set_token"
    /\ http_token' = token
    /\ pcMain' = "discover"
    /\ UNCHANGED <<cfgVars, libVars, rxVars, ws, lockVars, sessionVars, cur, hb, nTasks, apiVars,
                   wireVars, srvVars, lastErr, rate_limits, nSent, httpResp,
                   gatewayUrl, reqAuth, callVars>>

\* self.http.get_gateway(): self.request("GET", "/gateway", None) up to req.send()
GetGateway ==
    /\ pcMain = "discover"
    /\ reqAuth' = http_token
    /\ IF ValidMethod("GET")
       THEN pcMain' = "discovering" /\ nSent' = nSent + 1 /\ UNCHANGED lastErr
       ELSE /\ pcMain' = "returned" /\ UNCHANGED nSent
            /\ lastErr' = Err("InvalidData", 0, "GET")
    /\ UNCHANGED <<cfgVars, libVars, rxVars, ws, lockVars, sessionVars, cur, hb, nTasks, apiVars,
                   wireVars, srvVars, http_token, rate_limits, httpResp, gatewayUrl,
                   callVars>>

\* req.send().await answers
GetGatewayResponse ==
    /\ pcMain = "discovering"
    /\ httpResp' \in Responses
    /\ pcMain' = "discovered"
    /\ UNCHANGED <<cfgVars, libVars, rxVars, ws, lockVars, sessionVars, cur, hb, nTasks, apiVars,
                   wireVars, srvVars, lastErr, http_token, rate_limits, nSent,
                   gatewayUrl, reqAuth, callVars>>

\* request() and get_gateway() return; let gateway_url = ...await?
GetGatewayReturn ==
    /\ pcMain = "discovered"
    /\ LET g == GetGatewayResult(RequestOutcome(httpResp))
       IN IF g.ok
          THEN pcMain' = "construct" /\ gatewayUrl' = g.url /\ UNCHANGED lastErr
          ELSE pcMain' = "returned" /\ lastErr' = g.err /\ UNCHANGED gatewayUrl
    /\ httpResp' = NoResp
    /\ UNCHANGED <<cfgVars, libVars, rxVars, ws, lockVars, sessionVars, cur, hb, nTasks, apiVars,
                   wireVars, srvVars, http_token, rate_limits, nSent, reqAuth, callVars>>

\* Gateway::new(token, intents)
NewGateway ==
    /\ pcMain = "construct"
    /\ pcMain' = "connect"
    /\ ws' = "None"
    /\ sequence' = None
    /\ session_id' = NoStr
    /\ heartbeat_interval' = None
    /\ last_heartbeat_ack' = TRUE
    /\ UNCHANGED <<cfgVars, libVars, rxVars, httpVars, lockVars, cur, hb, nTasks, apiVars, wireVars, srvVars, lastErr>>

\* gateway.connect(&gateway_url).await?  (gateway_url is not used afterwards)
GatewayConnect ==
    /\ pcMain = "connect"
    /\ \/ ws' = "Some" /\ pcMain' = "loop" /\ UNCHANGED lastErr
       \/ pcMain' = "returned" /\ lastErr' = Err("WebSocket", 0, "") /\ UNCHANGED ws
    /\ gatewayUrl' = NoStr
    /\ UNCHANGED <<http_token, rate_limits, nSent, httpResp, reqAuth, callVars>>
    /\ UNCHANGED <<cfgVars, libVars, rxVars, lockVars, sessionVars, cur, hb, nTasks, apiVars,
                   wireVars, srvVars>>

----------------------------------------------------------------------------
(* connect() returns an error while the receive loop holds the lock: the     *)
(* guard is dropped, and a send_heartbeat() future borrowing the engine is   *)
(* dropped before the engine is                                              *)

\* an error that is dropped, the loop going on to the next receive
ReturnErrSwallowed(err) ==
    /\ pcMain' = "loop"
    /\ UNCHANGED <<lastErr, apiVars>>
    /\ IF wsWaiters = <<>>
       THEN wsHolder' = NoHolder /\ UNCHANGED wsWaiters
       ELSE wsHolder' = Head(wsWaiters) /\ wsWaiters' = Tail(wsWaiters)

ReturnErr(err) ==
    /\ pcMain' = "returned"
    /\ lastErr' = err
    /\ pcApi' = IF pcApi = "idle" THEN pcApi ELSE "dropped"
    /\ LET w == SelectSeq(wsWaiters, LAMBDA x : x # ApiP)
       IN IF w = <<>>
          THEN wsHolder' = NoHolder /\ wsWaiters' = w
          ELSE wsHolder' = Head(w) /\ wsWaiters' = Tail(w)
    /\ UNCHANGED <<apiSeq, apiCalls>>

----------------------------------------------------------------------------
(* Gateway::receive, called from the loop of connect() *)

\* let mut ws_guard = self.ws.write().await
LoopReceive ==
    /\ pcMain = "loop"
    /\ Acquire(MainP)
    /\ pcMain' = IF Granted(MainP) THEN "receiving" ELSE "recv_wait"
    /\ UNCHANGED <<cfgVars, libVars, rxVars, httpVars, ws, sessionVars, cur, hb, nTasks, apiVars, wireVars,
                   srvVars, lastErr>>

\* the queued write() is granted
ReceiveWake ==
    /\ pcMain = "recv_wait"
    /\ wsHolder = MainP
    /\ pcMain' = "receiving"
    /\ UNCHANGED <<cfgVars, libVars, rxVars, httpVars, ws, lockVars, sessionVars, cur, hb, nTasks, apiVars,
                   wireVars, srvVars, lastErr>>

\* a close frame without a body reported with the code of an abnormal closure
CloseErrorAbnormal(frame) ==
    Err("ConnectionClosed",
        IF frame.body THEN frame.code ELSE 1006,
        IF frame.body THEN frame.reason ELSE "")

\* Message::Close(frame): code and reason of the frame, 1000 and "" without one
CloseError(frame) ==
    Err("ConnectionClosed",
        IF frame.body THEN frame.code ELSE 1000,
        IF frame.body THEN frame.reason ELSE "")

Receiving == pcMain = "receiving" /\ wsHolder = MainP /\ ws = "Some"

\* Message::Text / Message::Binary holding a JSON payload: Ok(Some(data))
ReceivePayload ==
    /\ Receiving /\ ~eof
    /\ frames < MaxFrames
    /\ \E kind \in {"Text", "Binary"}, p \in Payloads :
          /\ (p.op = Hello => hellos < MaxTasks)
          /\ cur' = p
          /\ hellos' = IF p.op = Hello THEN hellos + 1 ELSE hellos
          /\ acks' = IF p.op = HeartbeatAck THEN acks + 1 ELSE acks
    /\ frames' = frames + 1
    /\ pcMain' = "hp_seq"
    /\ Release
    /\ UNCHANGED <<cfgVars, libVars, rxVars, httpVars, ws, sessionVars, eof, hb, nTasks, apiVars, wireVars, lastErr>>

\* Text or Binary that is not JSON: serde_json::from_str(..)? fails
ReceiveMalformed ==
    /\ Receiving /\ ~eof
    /\ recvErr' = Err("Json", 0, "")
    /\ ReturnErr(recvErr')
    /\ UNCHANGED <<cfgVars, libVars, closeMsg, httpVars, ws, sessionVars, cur, hb, nTasks, wireVars, srvVars>>

\* Message::Close(frame)
ReceiveClose ==
    /\ Receiving /\ ~eof
    /\ \E f \in CloseFrames :
          /\ closeMsg' = f
          /\ recvErr' = CloseError(f)
    /\ ReturnErr(recvErr')
    /\ UNCHANGED <<cfgVars, libVars, httpVars, ws, sessionVars, cur, hb, nTasks, wireVars, srvVars>>

\* ws.next() yields Some(Err(e)): msg? fails
ReceiveTransportError ==
    /\ Receiving /\ ~eof
    /\ recvErr' = Err("WebSocket", 0, "")
    /\ ReturnErr(recvErr')
    /\ UNCHANGED <<cfgVars, libVars, closeMsg, httpVars, ws, sessionVars, cur, hb, nTasks, wireVars, srvVars>>

\* Ping, Pong or raw frame: Ok(None)
ReceiveOther ==
    /\ Receiving /\ ~eof
    /\ pcMain' = "loop"
    /\ Release
    /\ UNCHANGED <<cfgVars, libVars, rxVars, httpVars, ws, sessionVars, cur, hb, nTasks, apiVars, wireVars,
                   srvVars, lastErr>>

\* ws.next() yields None, now and on every later call: Ok(None)
ReceiveEnd ==
    /\ Receiving
    /\ eof' = TRUE
    /\ pcMain' = "loop"
    /\ Release
    /\ UNCHANGED <<cfgVars, libVars, rxVars, httpVars, ws, sessionVars, cur, hb, nTasks, apiVars, wireVars,
                   frames, hellos, acks, lastErr>>

----------------------------------------------------------------------------
(* Gateway::handle_payload, called from the loop of connect() *)

\* if let Some(seq) = payload["s"].as_u64() { *self.sequence.write().await = Some(seq) }
HandleSequence ==
    /\ pcMain = "hp_seq"
    /\ sequence' = UpdateSequence(sequence, cur)
    /\ pcMain' = "hp_op"
    /\ UNCHANGED <<cfgVars, libVars, rxVars, httpVars, ws, lockVars, session_id, heartbeat_interval,
                   last_heartbeat_ack, cur, hb, nTasks, apiVars, wireVars, srvVars, lastErr>>

\* Hello handled without recording the interval before send_identify()
HandleHelloUnrecorded ==
    /\ pcMain = "hp_op"
    /\ OpcodeOf(cur) = Hello
    /\ pcMain' = "id_lock"
    /\ UNCHANGED <<cfgVars, libVars, rxVars, httpVars, ws, lockVars, sessionVars, cur, hb, nTasks, apiVars,
                   wireVars, srvVars, lastErr>>

\* Some(GatewayOpcode::Hello): record the interval, then send_identify()
HandleHello ==
    /\ pcMain = "hp_op"
    /\ OpcodeOf(cur) = Hello
    /\ heartbeat_interval' = HelloInterval(cur)
    /\ pcMain' = "id_lock"
    /\ UNCHANGED <<cfgVars, libVars, rxVars, httpVars, ws, lockVars, sequence, session_id, last_heartbeat_ack,
                   cur, hb, nTasks, apiVars, wireVars, srvVars, lastErr>>

\* an ack arm that leaves the flag as it is
HandleHeartbeatAckIgnored ==
    /\ pcMain = "hp_op"
    /\ OpcodeOf(cur) = HeartbeatAck
    /\ pcMain' = "post"
    /\ UNCHANGED <<cfgVars, libVars, rxVars, httpVars, ws, lockVars, sessionVars, cur, hb, nTasks, apiVars,
                   wireVars, srvVars, lastErr>>

\* Some(GatewayOpcode::HeartbeatAck); a task whose Heartbeat is written and
\* that is in its grace window has seen an ack since
HandleHeartbeatAck ==
    /\ pcMain = "hp_op"
    /\ OpcodeOf(cur) = HeartbeatAck
    /\ last_heartbeat_ack' = TRUE
    /\ hb' = [i \in TaskIds |->
                IF hb[i].pc = "sleep" THEN [hb[i] EXCEPT !.acked = TRUE] ELSE hb[i]]
    /\ pcMain' = "post"
    /\ UNCHANGED <<cfgVars, libVars, rxVars, httpVars, ws, lockVars, sequence, session_id, heartbeat_interval,
                   cur, nTasks, apiVars, wireVars, srvVars, lastErr>>

\* Some(GatewayOpcode::Dispatch)
HandleDispatch ==
    /\ pcMain = "hp_op"
    /\ OpcodeOf(cur) = Dispatch
    /\ session_id' = ReadySessionId(session_id, cur)
    /\ pcMain' = "post"
    /\ UNCHANGED <<cfgVars, libVars, rxVars, httpVars, ws, lockVars, sequence, heartbeat_interval,
                   last_heartbeat_ack, cur, hb, nTasks, apiVars, wireVars, srvVars, lastErr>>

\* arms that drop the session
HandleOtherClears ==
    /\ pcMain = "hp_op"
    /\ OpcodeOf(cur) \notin {Hello, HeartbeatAck, Dispatch}
    /\ sequence' = None
    /\ session_id' = NoStr
    /\ pcMain' = "post"
    /\ UNCHANGED <<cfgVars, libVars, rxVars, httpVars, ws, lockVars, heartbeat_interval, last_heartbeat_ack,
                   cur, hb, nTasks, apiVars, wireVars, srvVars, lastErr>>

\* Reconnect, InvalidSession and the "_ => {}" arm: nothing is done
HandleOther ==
    /\ pcMain = "hp_op"
    /\ OpcodeOf(cur) \notin {Hello, HeartbeatAck, Dispatch}
    /\ pcMain' = "post"
    /\ UNCHANGED <<cfgVars, libVars, rxVars, httpVars, ws, lockVars, sessionVars, cur, hb, nTasks, apiVars,
                   wireVars, srvVars, lastErr>>

\* send_identify -> send_json: let mut ws_guard = self.ws.write().await
IdentifyLock ==
    /\ pcMain = "id_lock"
    /\ Acquire(MainP)
    /\ pcMain' = IF Granted(MainP) THEN "id_send" ELSE "id_wait"
    /\ UNCHANGED <<cfgVars, libVars, rxVars, httpVars, ws, sessionVars, cur, hb, nTasks, apiVars, wireVars,
                   srvVars, lastErr>>

IdentifyWake ==
    /\ pcMain = "id_wait"
    /\ wsHolder = MainP
    /\ pcMain' = "id_send"
    /\ UNCHANGED <<cfgVars, libVars, rxVars, httpVars, ws, lockVars, sessionVars, cur, hb, nTasks, apiVars,
                   wireVars, srvVars, lastErr>>

\* send_json: if let Some(ws) = &mut *ws_guard { ws.send(msg).await?; } Ok(())
IdentifySend ==
    /\ pcMain = "id_send"
    /\ wsHolder = MainP
    /\ \E ok \in BOOLEAN :
          /\ IF ws = "Some"
             THEN /\ lastFrame' = IdentifyFrame(token, intents, ok)
                  /\ nIdentify' = nIdentify + 1
                  /\ UNCHANGED nHeartbeat
             ELSE UNCHANGED wireVars
          /\ IF ok \/ ws # "Some"
             THEN pcMain' = "post" /\ Release /\ UNCHANGED <<apiVars, lastErr>>
             ELSE ReturnErr(Err("WebSocket", 0, ""))
    /\ UNCHANGED <<cfgVars, libVars, rxVars, httpVars, ws, sessionVars, cur, hb, nTasks, srvVars>>

----------------------------------------------------------------------------
(* connect(): after handle_payload *)

\* if payload["op"].as_u64() == Some(10) { gateway.start_heartbeat().await }
\* start_heartbeat: if the interval is recorded, tokio::spawn the task
StartHeartbeat ==
    /\ pcMain = "post"
    /\ SawHello(cur)
    /\ IF heartbeat_interval # None /\ nTasks < MaxTasks
       THEN /\ nTasks' = nTasks + 1
            /\ hb' = [hb EXCEPT ![nTasks + 1] = [pc |-> "tick", seq |-> None, acked |-> FALSE]]
       ELSE UNCHANGED <<hb, nTasks>>
    /\ pcMain' = "loop"
    /\ cur' = NoPayload
    /\ UNCHANGED <<cfgVars, libVars, rxVars, httpVars, ws, lockVars, sessionVars, apiVars, wireVars, srvVars, lastErr>>

\* any other frame: the loop body ends (a Dispatch event name is only printed)
EndIteration ==
    /\ pcMain = "post"
    /\ ~SawHello(cur)
    /\ pcMain' = "loop"
    /\ cur' = NoPayload
    /\ UNCHANGED <<cfgVars, libVars, rxVars, httpVars, ws, lockVars, sessionVars, hb, nTasks, apiVars, wireVars,
                   srvVars, lastErr>>

----------------------------------------------------------------------------
(* The task spawned by Gateway::start_heartbeat *)

\* interval_timer.tick().await; let seq = *sequence.read().await
HbTick(i) ==
    /\ hb[i].pc = "tick"
    /\ hb' = [hb EXCEPT ![i] = [pc |-> "mark", seq |-> sequence, acked |-> FALSE]]
    /\ UNCHANGED <<pcMain, cfgVars, libVars, rxVars, httpVars, ws, lockVars, sessionVars, cur, nTasks, apiVars,
                   wireVars, srvVars, lastErr>>

\* *last_heartbeat_ack.write().await = false
HbMark(i) ==
    /\ hb[i].pc = "mark"
    /\ last_heartbeat_ack' = FALSE
    /\ hb' = [hb EXCEPT ![i].pc = "lock"]
    /\ UNCHANGED <<pcMain, cfgVars, libVars, rxVars, httpVars, ws, lockVars, sequence, session_id,
                   heartbeat_interval, cur, nTasks, apiVars, wireVars, srvVars, lastErr>>

\* let mut ws_guard = ws.write().await
HbLock(i) ==
    /\ hb[i].pc = "lock"
    /\ Acquire(HbP(i))
    /\ hb' = [hb EXCEPT ![i].pc = IF Granted(HbP(i)) THEN "send" ELSE "wait"]
    /\ UNCHANGED <<pcMain, cfgVars, libVars, rxVars, httpVars, ws, sessionVars, cur, nTasks, apiVars, wireVars,
                   srvVars, lastErr>>

HbWake(i) ==
    /\ hb[i].pc = "wait"
    /\ wsHolder = HbP(i)
    /\ hb' = [hb EXCEPT ![i].pc = "send"]
    /\ UNCHANGED <<pcMain, cfgVars, libVars, rxVars, httpVars, ws, lockVars, sessionVars, cur, nTasks, apiVars,
                   wireVars, srvVars, lastErr>>

\* if let Err(e) = ws_stream.send(msg).await { break }, then the guard is dropped
HbSend(i) ==
    /\ hb[i].pc = "send"
    /\ wsHolder = HbP(i)
    /\ \E ok \in BOOLEAN :
          /\ IF ws = "Some"
             THEN /\ lastFrame' = HeartbeatFrame(hb[i].seq, HbP(i), ok)
                  /\ nHeartbeat' = nHeartbeat + 1
                  /\ UNCHANGED nIdentify
             ELSE UNCHANGED wireVars
          /\ hb' = [hb EXCEPT ![i].pc = IF ok \/ ws # "Some" THEN "sleep" ELSE "failed"]
    /\ Release
    /\ UNCHANGED <<pcMain, cfgVars, libVars, rxVars, httpVars, ws, sessionVars, cur, nTasks, apiVars, srvVars, lastErr>>

\* sleep(5 s).await; if !*last_heartbeat_ack.read().await { break }
HbCheck(i) ==
    /\ hb[i].pc = "sleep"
    /\ hb' = [hb EXCEPT ![i].pc = IF AckMissing(last_heartbeat_ack) THEN "zombie" ELSE "tick",
                         ![i].acked = FALSE]
    /\ UNCHANGED <<pcMain, cfgVars, libVars, rxVars, httpVars, ws, lockVars, sessionVars, cur, nTasks, apiVars,
                   wireVars, srvVars, lastErr>>

----------------------------------------------------------------------------
(* Gateway::send_heartbeat, called while the engine is in use *)

EngineInUse ==
    pcMain \in {"loop", "recv_wait", "receiving", "hp_seq", "hp_op", "id_lock",
                "id_wait", "id_send", "post"}

\* let seq = *self.sequence.read().await
ApiCall ==
    /\ pcApi = "idle"
    /\ EngineInUse
    /\ apiCalls < MaxApiCalls
    /\ apiCalls' = apiCalls + 1
    /\ apiSeq' = sequence
    /\ pcApi' = "mark"
    /\ UNCHANGED <<pcMain, cfgVars, libVars, rxVars, httpVars, ws, lockVars, sessionVars, cur, hb, nTasks, wireVars,
                   srvVars, lastErr>>

\* *self.last_heartbeat_ack.write().await = false
ApiMark ==
    /\ pcApi = "mark"
    /\ last_heartbeat_ack' = FALSE
    /\ pcApi' = "lock"
    /\ UNCHANGED <<pcMain, cfgVars, libVars, rxVars, httpVars, ws, lockVars, sequence, session_id,
                   heartbeat_interval, cur, hb, nTasks, apiSeq, apiCalls, wireVars,
                   srvVars, lastErr>>

\* send_json: let mut ws_guard = self.ws.write().await
ApiLock ==
    /\ pcApi = "lock"
    /\ Acquire(ApiP)
    /\ pcApi' = IF Granted(ApiP) THEN "send" ELSE "wait"
    /\ UNCHANGED <<pcMain, cfgVars, libVars, rxVars, httpVars, ws, sessionVars, cur, hb, nTasks, apiSeq, apiCalls,
                   wireVars, srvVars, lastErr>>

ApiWake ==
    /\ pcApi = "wait"
    /\ wsHolder = ApiP
    /\ pcApi' = "send"
    /\ UNCHANGED <<pcMain, cfgVars, libVars, rxVars, httpVars, ws, lockVars, sessionVars, cur, hb, nTasks, apiSeq,
                   apiCalls, wireVars, srvVars, lastErr>>

\* send_json: if let Some(ws) = &mut *ws_guard { ws.send(msg).await?; } Ok(())
ApiSend ==
    /\ pcApi = "send"
    /\ wsHolder = ApiP
    /\ \E ok \in BOOLEAN :
          IF ws = "Some"
          THEN /\ lastFrame' = HeartbeatFrame(apiSeq, ApiP, ok)
               /\ nHeartbeat' = nHeartbeat + 1
               /\ UNCHANGED nIdentify
          ELSE UNCHANGED wireVars
    /\ pcApi' = "idle"
    /\ Release
    /\ UNCHANGED <<pcMain, cfgVars, libVars, rxVars, httpVars, ws, sessionVars, cur, hb, nTasks, apiSeq, apiCalls,
                   srvVars, lastErr>>

----------------------------------------------------------------------------
(* Client::run: block_on returns and the runtime is dropped, which cancels   *)
(* every task still spawned on it and with them the last handles of ws       *)

HbLive(i) == hb[i].pc \in {"tick", "mark", "lock", "wait", "send", "sleep"}

RuntimeDrop ==
    /\ pcMain = "returned"
    /\ pcMain' = "exited"
    /\ hb' = [i \in TaskIds |->
                IF HbLive(i) THEN [hb[i] EXCEPT !.pc = "cancelled", !.acked = FALSE]
                ELSE hb[i]]
    /\ wsHolder' = NoHolder
    /\ wsWaiters' = <<>>
    /\ ws' = "None"
    /\ UNCHANGED <<cfgVars, libVars, rxVars, httpVars, sessionVars, cur, nTasks, apiVars, wireVars, srvVars, lastErr>>

----------------------------------------------------------------------------
Main ==
    \/ RunSetToken \/ GetGateway \/ GetGatewayResponse \/ GetGatewayReturn
    \/ NewGateway \/ GatewayConnect
    \/ LoopReceive \/ ReceiveWake
    \/ HandleSequence \/ HandleHello \/ HandleHeartbeatAck \/ HandleDispatch
    \/ HandleOther \/ IdentifyLock \/ IdentifyWake \/ IdentifySend
    \/ StartHeartbeat \/ EndIteration
    \/ RuntimeDrop

\* what the peer and the transport decide
Server ==
    \/ ReceivePayload \/ ReceiveMalformed \/ ReceiveClose
    \/ ReceiveTransportError \/ ReceiveOther \/ ReceiveEnd

HbTask(i) ==
    \/ HbTick(i) \/ HbMark(i) \/ HbLock(i) \/ HbWake(i) \/ HbSend(i) \/ HbCheck(i)

Api == ApiCall \/ ApiMark \/ ApiLock \/ ApiWake \/ ApiSend

\* the program as the repository runs it: nothing in it calls send_heartbeat()
Next ==
    \/ Main
    \/ Server
    \/ \E i \in TaskIds : HbTask(i)

Spec == Init /\ [][Next]_vars

\* the engine with a caller of its public send_heartbeat() beside the loop
ApiNext ==
    \/ Next
    \/ Api

ApiSpec == Init /\ [][ApiNext]_vars

(* The scheduling of the tokio runtime: a task that can run does run.  The  *)
(* peer is under no obligation to send; once the stream has ended ws.next() *)
(* returns at once.                                                          *)
Fairness ==
    /\ WF_vars(Main)
    /\ \A i \in TaskIds : WF_vars(HbTask(i))
    /\ WF_vars(eof /\ ReceiveEnd)

FairSpec == Spec /\ Fairness

----------------------------------------------------------------------------
(* Properties *)

Procs == {MainP, ApiP} \cup {HbP(i) : i \in TaskIds}

\* task p is inside ws.next() or ws.send()
Using(p) ==
    \/ p = MainP /\ pcMain \in {"receiving", "id_send"}
    \/ p = ApiP /\ pcApi = "send"
    \/ \E i \in TaskIds : p = HbP(i) /\ hb[i].pc = "send"

Ended == pcMain \in {"returned", "exited"}

HelloInProgress ==
    /\ pcMain \in {"hp_seq", "hp_op", "id_lock", "id_wait", "id_send"}
    /\ OpcodeOf(cur) = Hello

\* C1: if the server sends Hello and never a HeartbeatAck (the connection
\* staying up and every write succeeding), some heartbeat task eventually
\* sends a Heartbeat, finds it unacknowledged after the grace window and stops.
C1_MissingAckDetected ==
    ( /\ <>(nTasks > 0)
      /\ [](acks = 0)
      /\ [](~Ended)
      /\ [](\A i \in TaskIds : hb[i].pc # "failed") )
    => <>(\E i \in TaskIds : hb[i].pc = "zombie")

\* C2: once a heartbeat task has stopped for a missing ack, the receive loop
\* is told and ends: the run does not go on receiving on that connection.
C2_ZombieEndsReceiveLoop ==
    (\E i \in TaskIds : hb[i].pc = "zombie") ~> Ended

\* C3: a task that finds the ack flag false at the end of the grace window
\* stops there, and a task stopped that way writes no further Heartbeat.
C3_StopsOnMissingAck ==
    [][\A i \in TaskIds :
         /\ (hb[i].pc = "sleep" /\ hb'[i].pc # "sleep" /\ ~last_heartbeat_ack)
                => hb'[i].pc \in {"zombie", "cancelled"}
         /\ hb[i].pc = "zombie"
                => /\ hb'[i].pc = "zombie"
                   /\ (nHeartbeat' # nHeartbeat => lastFrame'.by # HbP(i))]_vars

C3_Witness ==
    \E i \in TaskIds : hb[i].pc = "zombie" /\ lastFrame.by = HbP(i) /\ ~last_heartbeat_ack

\* C4: every Heartbeat handed to the connection carries the session's
\* last-seen sequence as it stands when the frame is written.
C4_HeartbeatEchoesSequence ==
    [][nHeartbeat' # nHeartbeat => lastFrame'.d = sequence']_vars

\* C5: once handle_payload has passed its first statement the sequence equals
\* the frame's s when s is a u64, whatever the opcode, so it does when the
\* Identify of a Hello is written; a frame without such an s leaves it alone.
C5_SequenceUpdatedFirst ==
    /\ []((pcMain \in {"hp_op", "id_lock", "id_wait", "id_send", "post"}
            /\ as_u64(cur.s) # None) => sequence = cur.s)
    /\ [][sequence' # sequence =>
            (pcMain = "hp_seq" /\ as_u64(cur.s) # None /\ sequence' = cur.s)]_vars
    /\ [][(nIdentify' # nIdentify /\ as_u64(cur.s) # None) => sequence = cur.s]_vars

C5_Witness ==
    /\ pcMain = "id_send" /\ OpcodeOf(cur) = Hello
    /\ as_u64(cur.s) # None /\ sequence = cur.s /\ nIdentify = 0

\* C6: the last-seen sequence never decreases and never goes back to null.
C6_SequenceMonotonic ==
    [][sequence # None => (sequence' # None /\ sequence' >= sequence)]_vars

\* C7: each Hello makes the engine hand exactly one Identify to the
\* connection, carrying the engine's token and mask, and the interval of that
\* Hello is already recorded when the Identify is written.
C7_HelloThenOneIdentify ==
    /\ [](nIdentify = hellos - (IF HelloInProgress THEN 1 ELSE 0))
    /\ [][nIdentify' # nIdentify =>
            /\ nIdentify' = nIdentify + 1
            /\ OpcodeOf(cur) = Hello
            /\ heartbeat_interval # None
            /\ heartbeat_interval = unwrap_or(as_u64(cur.hbi), DefaultInterval)
            /\ lastFrame'.op = Identify
            /\ lastFrame'.token = token
            /\ lastFrame'.intents = intents]_vars

C7_Witness ==
    /\ pcMain = "post" /\ SawHello(cur)
    /\ nIdentify = 2 /\ hellos = 2
    /\ lastFrame.op = Identify /\ heartbeat_interval = 1000

\* C8: the heartbeat task is started once per connection, so at most one
\* heartbeat task is running at any time.
C8_OneHeartbeatTask ==
    /\ nTasks <= 1
    /\ Cardinality({i \in TaskIds : HbLive(i)}) <= 1

\* C9: once the receive loop has ended with a failure no heartbeat task is
\* running, and no Heartbeat is written to the connection from then on.
C9_NoHeartbeatAfterTeardown ==
    /\ [](Ended => \A i \in TaskIds : ~HbLive(i))
    /\ [][Ended => nHeartbeat' = nHeartbeat]_vars

\* C10: whoever is inside a receive or a write on the connection holds its
\* lock, so at most one task uses the connection at a time, and every frame
\* is written by the holder of the lock.
C10_ExclusiveTransport ==
    /\ [](\A p \in Procs : Using(p) => wsHolder = p)
    /\ [](Cardinality({p \in Procs : Using(p)}) <= 1)
    /\ [][(nIdentify' # nIdentify \/ nHeartbeat' # nHeartbeat)
            => (wsHolder = lastFrame'.by /\ Using(lastFrame'.by))]_vars

C10_Witness ==
    /\ pcMain = "receiving"
    /\ \E i \in TaskIds : hb[i].pc = "wait"
    /\ pcApi = "wait"

\* C11: after an InvalidSession frame has been handled the session's
\* sequence and session id are both null.
C11_InvalidSessionDiscards ==
    (pcMain = "post" /\ OpcodeOf(cur) = InvalidSession)
        => (sequence = None /\ session_id = NoStr)

\* C12: while a Reconnect frame is handled the session id does not change
\* and the sequence is not cleared: it stays, or becomes the frame's own s.
C12_ReconnectPreservesSession ==
    [][(pcMain \in {"hp_seq", "hp_op"} /\ OpcodeOf(cur) = Reconnect) =>
          /\ session_id' = session_id
          /\ (sequence' = sequence \/ (as_u64(cur.s) # None /\ sequence' = cur.s))
          /\ (sequence # None => sequence' # None)]_vars

C12_Witness ==
    /\ pcMain = "post" /\ OpcodeOf(cur) = Reconnect
    /\ session_id # NoStr /\ sequence # None /\ as_u64(cur.s) = None

\* C13: a Dispatch frame with t = "READY" and a string d.session_id sets the
\* session id to that string, whatever it was before, and the sequence to the
\* frame's s when it carries one.
C13_ReadyCapturesSessionId ==
    /\ []((pcMain = "post" /\ OpcodeOf(cur) = Dispatch /\ cur.t = "READY"
            /\ cur.sid # NoStr)
          => (session_id = cur.sid /\ (as_u64(cur.s) # None => sequence = cur.s)))
    /\ [][(pcMain = "hp_op" /\ pcMain' = "post" /\ OpcodeOf(cur) = Dispatch
            /\ cur.t = "READY" /\ cur.sid # NoStr) => session_id' = cur.sid]_vars

C13_Witness ==
    /\ pcMain = "post" /\ OpcodeOf(cur) = Dispatch /\ cur.t = "READY"
    /\ session_id = "abc123" /\ cur.sid = "abc123" /\ frames = 1
    /\ as_u64(cur.s) # None /\ sequence = cur.s

\* C14: handling a HeartbeatAck sets the ack flag and changes no other
\* session field but the sequence (to the frame's s); a new engine has the
\* flag set and no sequence, session id or interval.
C14_AckSetsFlag ==
    /\ [][(pcMain = "hp_op" /\ pcMain' # pcMain /\ OpcodeOf(cur) = HeartbeatAck) =>
            /\ last_heartbeat_ack'
            /\ UNCHANGED <<sequence, session_id, heartbeat_interval>>]_vars
    /\ [][(pcMain = "hp_seq" /\ pcMain' # pcMain /\ OpcodeOf(cur) = HeartbeatAck) =>
            /\ UNCHANGED <<session_id, heartbeat_interval, last_heartbeat_ack>>
            /\ (sequence' = sequence \/ (as_u64(cur.s) # None /\ sequence' = cur.s))]_vars
    /\ [](pcMain = "connect" =>
            /\ last_heartbeat_ack
            /\ sequence = None /\ session_id = NoStr /\ heartbeat_interval = None)

C14_Witness ==
    /\ pcMain = "post" /\ OpcodeOf(cur) = HeartbeatAck
    /\ last_heartbeat_ack /\ nHeartbeat >= 1 /\ acks = 1

\* C15: a close frame makes receive() fail with ConnectionClosed carrying the
\* frame's code and reason, or 1000 and "" when the frame has no body, and no
\* payload comes out of it.
C15_CloseFrameFails ==
    closeMsg.got =>
        /\ recvErr.kind = "ConnectionClosed"
        /\ recvErr.code = (IF closeMsg.body THEN closeMsg.code ELSE 1000)
        /\ recvErr.text = (IF closeMsg.body THEN closeMsg.reason ELSE "")
        /\ pcMain \notin {"hp_seq", "hp_op", "id_lock", "id_wait", "id_send", "post"}

C15_Witness ==
    closeMsg.got /\ ~closeMsg.body /\ recvErr.code = 1000 /\ frames >= 1

\* C16: an error of receive() is the error the run ends with; the loop then
\* neither handles a frame nor receives again.
C16_ReceiveFailurePropagates ==
    /\ [](recvErr # NoErr => (Ended /\ lastErr = recvErr))
    /\ [][recvErr' # NoErr =>
            UNCHANGED <<cur, frames, sequence, session_id, heartbeat_interval,
                        nIdentify, nTasks>>]_vars

C16_Witness ==
    recvErr.kind = "Json" /\ pcMain = "returned" /\ lastErr = recvErr /\ frames >= 1

\* what the contract says a response's status leads to, when it says it:
\* the error kind and the code the error carries (0 when it carries none)
SuccessStatus(st) == st \in 200..299
ServerStatus(st) == st \in 500..599

C18_RateLimitRecorded ==
    (pcReq = "idle" /\ result.err.kind = "RateLimited") => reqPath \in DOMAIN rate_limits

\* C19: a call of request() with a method outside GET, POST, PUT, PATCH,
\* DELETE returns InvalidData at once, whatever the path, body and token:
\* nothing is sent, and the token and the route map are as they were.
C19_InvalidMethodFailsFast ==
    [][(pcReq = "idle" /\ nCalls' = nCalls + 1
            /\ reqMethod' \notin {"GET", "POST", "PUT", "PATCH", "DELETE"}) =>
          /\ pcReq' = "idle"
          /\ ~result'.ok
          /\ result'.err.kind = "InvalidData" /\ result'.err.text = reqMethod'
          /\ nSent' = nSent
          /\ httpResp' = httpResp
          /\ http_token' = http_token
          /\ rate_limits' = rate_limits]_vars

C19_Witness ==
    /\ pcReq = "idle" /\ reqMethod = "get" /\ reqBody /\ http_token \in SetTokens
    /\ result.err.kind = "InvalidData" /\ result.err.text = "get"
    /\ nSent = 0 /\ nCalls = 1

\* the errors discovery can end with
DiscoveryErrors ==
    {"Http", "Gateway", "Forbidden", "NotFound", "RateLimited", "ServerError",
     "InvalidData"}

\* C20: discovery yields the url string of a successful JSON response; a
\* successful response without a string url fails with Gateway, and an error
\* of request() comes out as it is.  A failed discovery ends the run at once:
\* no Gateway is built, no connection attempted, nothing received or sent.
C20_GatewayDiscovery ==
    /\ [][(pcMain = "discovered" /\ pcMain' # pcMain) =>
            LET r == httpResp
                good == r.state = "arrived" /\ SuccessStatus(r.status) /\ r.body.json
            IN /\ (good /\ r.body.url # NoStr) =>
                      (pcMain' = "construct" /\ gatewayUrl' = r.body.url
                          /\ lastErr' = NoErr)
               /\ (good /\ r.body.url = NoStr) =>
                      (pcMain' = "returned" /\ lastErr'.kind = "Gateway")
               /\ ~good =>
                      (pcMain' = "returned" /\ ~RequestOutcome(r).ok
                          /\ lastErr' = RequestOutcome(r).err)]_vars
    /\ [][(lastErr' # lastErr /\ lastErr'.kind \in DiscoveryErrors) =>
            (pcMain = "discovered" /\ pcMain' = "returned")]_vars
    /\ [](lastErr.kind \in DiscoveryErrors =>
            /\ Ended
            /\ ws = "None" /\ wsHolder = NoHolder
            /\ frames = 0 /\ nIdentify = 0 /\ nHeartbeat = 0 /\ nTasks = 0
            /\ gatewayUrl = NoStr)

C20_Witness ==
    /\ pcMain = "returned" /\ lastErr.kind = "Gateway"
    /\ nSent = 1 /\ ws = "None" /\ frames = 0

\* caller w is in the operation op on key, with record data
Doing(w, op, key, data) ==
    /\ calls[w].op = op /\ calls[w].pc = "called"
    /\ calls[w].kind = key[1] /\ calls[w].id = key[2] /\ calls[w].data = data

\* C21: puts that run at the same time on different keys lose nothing: the
\* step of a put leaves its record under its key, every other key of every
\* store as it was, and a put of another caller still in flight untouched.
C21_ConcurrentPutsKeepData ==
    [][\A w \in Callers, key \in Kinds \X Ids, data \in Records :
          (Doing(w, "put", key, data) /\ calls'[w].pc = "idle") =>
              /\ get(key[1], key[2])' = data
              /\ \A other \in (Kinds \X Ids) \ {key} :
                    get(other[1], other[2])' = get(other[1], other[2])
              /\ \A v \in Callers \ {w} : calls'[v] = calls[v]]_vars

C21_Witness ==
    /\ DOMAIN guilds = Ids /\ guilds[101] # guilds[202]
    /\ \E w \in Callers : PutInFlight(w) /\ calls[w].kind = "guild"
    /\ \E w \in Callers : calls[w].pc = "idle"
    /\ nCacheCalls = 3

\* a step that leaves the get of every key outside keys as it was
OtherGetsKept(keys) ==
    \A other \in (Kinds \X Ids) \ keys : get(other[1], other[2])' = get(other[1], other[2])

\* C22: get(kind, id) answers with the last record put under that key of that
\* store, and with nothing once the key was removed or the store cleared: a
\* put sets its key only, a remove unsets its key only, the clearing of a
\* store unsets the keys of that store only, and nothing else changes a get.
C22_LastWriteWins ==
    /\ [][\A w \in Callers, key \in Kinds \X Ids, data \in Records :
             (Doing(w, "put", key, data) /\ calls'[w].pc # "called") =>
                 (get(key[1], key[2])' = data /\ OtherGetsKept({key}))]_vars
    /\ [][\A w \in Callers, i \in Ids :
             (Doing(w, "remove", <<"guild", i>>, Absent) /\ calls'[w].pc # "called") =>
                 (get("guild", i)' = Absent /\ OtherGetsKept({<<"guild", i>>}))]_vars
    /\ [][\A w \in Callers, kind \in Kinds :
             (calls[w].pc = "clear_" \o kind \o "s" /\ calls'[w].pc # calls[w].pc) =>
                 /\ \A i \in Ids : get(kind, i)' = Absent
                 /\ OtherGetsKept({kind} \X Ids)]_vars
    /\ [][(\A w \in Callers : calls[w].pc \in {"idle", "cleared"} \/ calls'[w] = calls[w]) =>
             OtherGetsKept({})]_vars

C22_Witness ==
    /\ get("user", 101) = "recB" /\ get("guild", 101) = Absent
    /\ get("user", 202) = Absent
    /\ nCacheCalls = 4 /\ \A w \in Callers : calls[w].pc = "idle"

\* C23: a clear() during which no put was in flight leaves all three stores
\* empty when it returns, whatever they held when it was called.
C23_ClearEmptiesAll ==
    [][\A w \in Callers :
          (calls[w].pc = "clear_channels" /\ calls'[w].pc = "cleared" /\ calls[w].alone) =>
              \A key \in Kinds \X Ids : get(key[1], key[2])' = Absent]_vars

C23_Witness ==
    \E w \in Callers :
        /\ calls[w].pc = "cleared" /\ calls[w].alone /\ calls[w].had = 3
        /\ guilds = <<>> /\ users = <<>> /\ channels = <<>>

\* the bits of the fields new() accepts by name
KnownBits == {FlagBit(name) : name \in FieldNames} \ {None}

\* C24: default() has bits 8 (presences), 1 (members) and 15 (message
\* content) clear and every other known bit set, all() & ~default() is
\* exactly those three bits, and all() is the union of the bits new()
\* accepts by name: no named field takes a value out of all().
C24_DefaultIntents ==
    /\ (made = "default" /\ nKwargs = 0) =>
          /\ BitsOf(value) = KnownBits \ {8, 1, 15}
          /\ value >= 0 /\ value < (2 ^ (MaxBit + 1))
          /\ And(all, -value - 1) = (2 ^ (8)) + (2 ^ (1)) + (2 ^ (15))
    /\ (made = "all" /\ nKwargs = 0) =>
          (BitsOf(value) = KnownBits /\ value = FromBits(KnownBits))
    /\ made = "new" => BitsOf(value) \subseteq BitsOf(all)
    /\ made = "new" => (value >= 0 /\ value < (2 ^ (MaxBit + 1)))

C24_Witness ==
    /\ made = "default" /\ nKwargs = 0
    /\ ~BitSet(value, 8) /\ ~BitSet(value, 1) /\ ~BitSet(value, 15)
    /\ BitSet(value, 25) /\ BitSet(value, 0)

\* C25: a heartbeat task that finds the ack flag true at the end of its grace
\* window and goes on to the next tick has had a HeartbeatAck handled since
\* its Heartbeat of this tick was written; an ack handled while the task was
\* still waiting for the connection does not count.
C25_AckFollowsHeartbeat ==
    [][\A i \in TaskIds :
          (hb[i].pc = "sleep" /\ hb'[i].pc = "tick") => hb[i].acked]_vars

\* task p is queued for the connection lock
Queued(p) == \E n \in 1..Len(wsWaiters) : wsWaiters[n] = p

\* task p stands before a lock or waits for one: before ws.write().await or
\* queued for it; before a read() or write() of a session field (the sequence
\* in handle_payload, the field of the opcode's arm, the interval in
\* start_heartbeat, the sequence and the ack flag in the heartbeat task and in
\* send_heartbeat)
WantsLock(p) ==
    \/ Queued(p)
    \/ p = MainP /\ pcMain \in {"loop", "id_lock", "hp_seq", "hp_op", "post"}
    \/ p = ApiP /\ pcApi \in {"lock", "mark"}
    \/ \E i \in TaskIds : p = HbP(i) /\ hb[i].pc \in {"lock", "tick", "mark", "sleep"}

\* C26: no task stands before a lock, or waits for one, while it holds the
\* connection lock (the guards of the session fields never live across an
\* await), and whoever holds the lock others are queued for is itself waiting
\* for no lock: there is no cycle of lock waits.
C26_NoLockCycle ==
    /\ \A p \in Procs : WantsLock(p) => wsHolder # p
    /\ \A p \in Procs :
          Queued(p) =>
              /\ wsHolder \in Procs \ {p}
              /\ ~WantsLock(wsHolder)

C26_Witness ==
    /\ Len(wsWaiters) = 2
    /\ pcMain = "receiving" /\ wsHolder = MainP
    /\ \A i \in TaskIds : hb[i].pc = "wait"

\* C27: once receive() has yielded no frame because the stream ended, the
\* loop handles nothing and only receives again: the run never returns, and
\* no session field (sequence, session id, heartbeat interval, ack flag)
\* changes from then on.
C27_StreamEndSpins ==
    /\ [](eof => (~Ended /\ pcMain \in {"loop", "recv_wait", "receiving"}))
    /\ [][eof => UNCHANGED <<cur, frames, lastErr>>]_vars
    /\ [][eof => UNCHANGED <<sequence, session_id, heartbeat_interval,
                             last_heartbeat_ack>>]_vars

\* C28: the session id changes only when a frame handled as Dispatch (op 0,
\* or op absent or not a non-negative integer) with t = "READY" and a string
\* d.session_id is handled, and then it becomes that string; a frame with any
\* other opcode number leaves it alone whatever it carries, so does every
\* other step, and once set it is never null again.
C28_SessionIdOnlyFromReady ==
    /\ [][(pcMain = "hp_op" /\ pcMain' # "hp_op") =>
            IF cur.op \in {0, JsonNull, JsonNotU64} /\ cur.t = "READY" /\ cur.sid # NoStr
            THEN session_id' = cur.sid
            ELSE session_id' = session_id]_vars
    /\ [][pcMain # "hp_op" => session_id' = session_id]_vars
    /\ [][session_id # NoStr => session_id' # NoStr]_vars

C28_Witness ==
    /\ pcMain = "post" /\ frames = 2
    /\ cur.op = HeartbeatAck /\ cur.t = "READY" /\ cur.sid = "xyz789"
    /\ session_id = "abc123"

====
